---- MODULE Spec2Model ----
(***************************************************************************)
(* Account lifecycle of the user-management backend: AuthController        *)
(* (src/src/controllers/auth.controller.ts) and UserController             *)
(* (src/src/controllers/user.ts).  Every request handler is a process that *)
(* advances one awaited collaborator call at a time; the User and Token    *)
(* tables, the mail outbox and the clock are the shared state.             *)
(***************************************************************************)
EXTENDS Integers, Sequences, FiniteSets, TLC

\* ------------------------------------------------------------------ bounds
MaxUserId == 2      \* user rows ever inserted
MaxTokenId == 2     \* token rows ever inserted
MaxAttempts == 2    \* collisions recorded per request (further ones are not counted)

\* Password-Reset time to live (policy constant of the Expiration Policy).
TTL == 1

\* The clock runs from 0 to one tick past the time to live, so that a token is
\* seen younger than TTL, exactly TTL old, and older.
MaxTime == TTL + 1

Procs == {1, 2}
TokenVals == {"t1", "t2"}
Emails == {"a@x.com", "b@x.com"}
Undefined == "undefined"
NoRow == [none |-> TRUE]
NoCred == [none |-> TRUE]

VARIABLES
  users,        \* User table: rows, tx = 0 committed, tx = p written by p's open transaction
  tokens,       \* Token table, same convention
  nextUserId,   \* user_id sequence
  nextTokenId,  \* token_id sequence
  now,          \* clock
  pc,           \* per request slot: position in its handler
  handler,      \* per request slot: the handler running
  req,          \* per request slot: request (body, params)
  loc,          \* per request slot: the handler's local variables
  resp,         \* per request slot: responses sent, in order
  log,          \* per request slot: connection / transaction / response events, in order
  mails,        \* per request slot: emails handed to the SMTP service
  createLog,    \* per request slot: outcome of each Token.create attempt
  failed,       \* per request slot: collaborator calls that threw
  escaped,      \* per request slot: an exception left the handler
  pre           \* per request slot: committed tables when the request arrived

vars == <<users, tokens, nextUserId, nextTokenId, now, pc, handler, req, loc,
          resp, log, mails, createLog, failed, escaped, pre>>

\* ------------------------------------------------------------ JS values
\* JavaScript values as far as === distinguishes them: a string and a number
\* are never strictly equal.
JsStr(s) == [t |-> "string", s |-> s]
JsNum(n) == [t |-> "number", n |-> n]
StrictEq(a, b) ==
  /\ a.t = b.t
  /\ IF a.t = "string" THEN a.s = b.s ELSE a.n = b.n

\* PG error codes, as the driver reports them in e.code (strings).
PgUniqueViolation == JsStr("23505")
PgOther == JsStr("08006")

\* ------------------------------------------------------------ collaborators
\* bcrypt.hash(password, 10)
Hash(pw) == <<"bcrypt", pw>>

Committed(rows) == {r \in rows : r.tx = 0}

\* User.findUsers([field], [value]) on a pooled (non transactional) connection
findUsers(field, value) ==
  {u \in Committed(users) :
     CASE field = "user_id" -> u.user_id = value
       [] field = "email" -> u.email = value
       [] field = "username" -> u.username = value}

\* Token.findTokens(["token", "type"], [value, type])
findTokens(value, type) ==
  {t \in Committed(tokens) : t.token = value /\ t.type = type}

\* rows[0] of a query result
FirstRow(rows) == CHOOSE r \in rows : \A o \in rows : r.user_id <= o.user_id

\* User.create(username, email, hashedPassword, roleId, name, client): the new row
UserRow(username, email, hashedPassword, roleId, name, tx) ==
  [user_id |-> nextUserId, username |-> username, email |-> email,
   name |-> name, password |-> hashedPassword, role_id |-> roleId,
   verified |-> FALSE, tx |-> tx]

\* username and email are unique columns
UserConflict(username, email) ==
  \E u \in users : u.username = username \/ u.email = email

\* Token.create(user_id, token, type, client?): the new row
TokenRow(userId, value, type, tx) ==
  [token_id |-> nextTokenId, token |-> value, user_id |-> userId,
   type |-> type, created_at |-> now, tx |-> tx]

\* token is a unique column
TokenConflict(value) == \E t \in tokens : t.token = value

\* e.code values Token.create can reject with for this value ("ok": it inserts)
TokenCreateOutcomes(value) ==
  IF TokenConflict(value) THEN {PgUniqueViolation} ELSE {JsStr("ok"), PgOther}

\* User.setAttributes([field], [value], userId)
setAttributes(field, value, userId) ==
  {IF u.user_id = userId /\ u.tx = 0 THEN [u EXCEPT ![field] = value] ELSE u : u \in users}

\* Token.deleteToken(token)
deleteToken(value) == {t \in tokens : ~(t.token = value /\ t.tx = 0)}

\* User.deleteUser(userId); token rows are not touched
deleteUserRow(userId) == {u \in users : ~(u.user_id = userId /\ u.tx = 0)}

\* tokenHandler.isPasswordTokenExpired(token)
isPasswordTokenExpired(token) == now - token.created_at >= TTL

\* tokenHandler.generateUserAuthToken(user, req)
generateUserAuthToken(user) ==
  [user_id |-> user.user_id, username |-> user.username, role_id |-> user.role_id]

\* ------------------------------------------------------------ plumbing
Response(status, location, cred) ==
  [status |-> status, location |-> location, cred |-> cred]

InitLoc ==
  [transactionInProgress |-> FALSE, hashedPassword |-> <<>>,
   newUser |-> NoRow, shortToken |-> Undefined,
   emailVerificationToken |-> Undefined, resetPasswordToken |-> Undefined,
   token |-> NoRow, user |-> NoRow, checkedAt |-> -1]

Request(username, email, password, name, token) ==
  [username |-> username, email |-> email, password |-> password,
   name |-> name, token |-> token]

NoRequest == Request(Undefined, Undefined, Undefined, Undefined, Undefined)

\* createLog after one more Token.create attempt with outcome e; collisions
\* beyond MaxAttempts are not recorded.
Attempt(cl, e) ==
  IF e = PgUniqueViolation /\ Len(cl) >= MaxAttempts THEN cl ELSE Append(cl, e)

\* A request arrives in slot p and runs handler h up to its first await.
Enter(p, h, r, l, nextpc, rs, lg, fl, esc) ==
  /\ pc[p] \in {"idle", "done"}
  /\ handler' = [handler EXCEPT ![p] = h]
  /\ req' = [req EXCEPT ![p] = r]
  /\ loc' = [loc EXCEPT ![p] = l]
  /\ resp' = [resp EXCEPT ![p] = rs]
  /\ log' = [log EXCEPT ![p] = lg]
  /\ mails' = [mails EXCEPT ![p] = <<>>]
  /\ createLog' = [createLog EXCEPT ![p] = <<>>]
  /\ failed' = [failed EXCEPT ![p] = fl]
  /\ escaped' = [escaped EXCEPT ![p] = esc]
  /\ pre' = [pre EXCEPT ![p] = [users |-> Committed(users), tokens |-> Committed(tokens)]]
  /\ pc' = [pc EXCEPT ![p] = nextpc]

\* An awaited call threw: control moves to the handler's catch block.
Throw(p, call) ==
  /\ failed' = [failed EXCEPT ![p] = @ \cup {call}]
  /\ pc' = [pc EXCEPT ![p] = "catch"]

\* ------------------------------------------------------------ Init
Init ==
  /\ users = {}
  /\ tokens = {}
  /\ nextUserId = 1
  /\ nextTokenId = 1
  /\ now = 0
  /\ pc = [p \in Procs |-> "idle"]
  /\ handler = [p \in Procs |-> "none"]
  /\ req = [p \in Procs |-> NoRequest]
  /\ loc = [p \in Procs |-> InitLoc]
  /\ resp = [p \in Procs |-> <<>>]
  /\ log = [p \in Procs |-> <<>>]
  /\ mails = [p \in Procs |-> <<>>]
  /\ createLog = [p \in Procs |-> <<>>]
  /\ failed = [p \in Procs |-> {}]
  /\ escaped = [p \in Procs |-> FALSE]
  /\ pre = [p \in Procs |-> [users |-> {}, tokens |-> {}]]

\* ------------------------------------------------------------ signup
SignupBodies ==
  {Request("al", "a@x.com", "p", "Al", Undefined),
   Request("bo", "b@x.com", "p", "Bo", Undefined),
   Request("al", "a@x.com", "p", Undefined, Undefined),
   Request(Undefined, "b@x.com", "p", "Bo", Undefined)}

\* line 41
signupBodyInvalid(b) ==
  b.username = Undefined \/ b.email = Undefined \/ b.password = Undefined \/ b.name = Undefined

\* transaction context handed to User.create and Token.create in signup (lines 51, 59)
signupClient(p) == p

signupIsCollisionNumber(e) == StrictEq(e, JsNum(23505))

signupRetriesAnyError(e) == TRUE

\* line 62
signupIsCollision(e) == StrictEq(e, JsStr("23505"))

signupNeverRollsBack(l) == FALSE

\* line 84
signupNeedsRollback(l) == l.transactionInProgress

VerificationEmailOfUsername(user, token) ==
  [kind |-> "verify", to |-> user.email, token |-> user.username]

\* lines 309-320: the verification email
VerificationEmail(user, token) ==
  [kind |-> "verify", to |-> user.email, token |-> token]

\* lines 33-46: pool.connect(), body validation, bcrypt.hash
signup(p) ==
  /\ nextUserId <= MaxUserId
  /\ nextTokenId <= MaxTokenId
  /\ \E b \in SignupBodies, connected \in BOOLEAN :
       IF ~connected
       THEN Enter(p, "signup", b, InitLoc, "done", <<>>, <<>>, {"pool.connect"}, TRUE)
       ELSE IF signupBodyInvalid(b)
       THEN Enter(p, "signup", b, InitLoc, "s_finally",
                  <<Response(400, "", NoCred)>>, <<"connect", "res">>, {}, FALSE)
       ELSE Enter(p, "signup", b, [InitLoc EXCEPT !.hashedPassword = Hash(b.password)],
                  "s_begin", <<>>, <<"connect">>, {}, FALSE)
  /\ UNCHANGED <<users, tokens, nextUserId, nextTokenId, now>>

\* lines 48-49: BEGIN
signup_begin(p) ==
  /\ pc[p] = "s_begin"
  /\ \E ok \in BOOLEAN :
       IF ok
       THEN /\ loc' = [loc EXCEPT ![p].transactionInProgress = TRUE]
            /\ log' = [log EXCEPT ![p] = Append(@, "BEGIN")]
            /\ pc' = [pc EXCEPT ![p] = "s_user"]
            /\ UNCHANGED failed
       ELSE /\ Throw(p, "BEGIN")
            /\ UNCHANGED <<loc, log>>
  /\ UNCHANGED <<users, tokens, nextUserId, nextTokenId, now, handler, req, resp,
                 mails, createLog, escaped, pre>>

\* lines 51-52: User.create
signup_user(p) ==
  /\ pc[p] = "s_user"
  /\ \E ok \in BOOLEAN :
       IF ok /\ ~UserConflict(req[p].username, req[p].email)
       THEN LET row == UserRow(req[p].username, req[p].email, loc[p].hashedPassword,
                               1, req[p].name, signupClient(p))
            IN /\ users' = users \cup {row}
               /\ nextUserId' = nextUserId + 1
               /\ loc' = [loc EXCEPT ![p].newUser = row]
               /\ pc' = [pc EXCEPT ![p] = "s_token"]
               /\ UNCHANGED failed
       ELSE /\ Throw(p, "User.create")
            /\ UNCHANGED <<users, nextUserId, loc>>
  /\ UNCHANGED <<tokens, nextTokenId, now, handler, req, resp, log, mails,
                 createLog, escaped, pre>>

\* lines 55-56: the loop test and generateShortToken
signup_generate(p) ==
  /\ pc[p] = "s_token"
  /\ loc[p].emailVerificationToken = Undefined
  /\ \E shortToken \in TokenVals :
       loc' = [loc EXCEPT ![p].shortToken = shortToken]
  /\ pc' = [pc EXCEPT ![p] = "s_create"]
  /\ UNCHANGED <<users, tokens, nextUserId, nextTokenId, now, handler, req, resp, log,
                 mails, createLog, failed, escaped, pre>>

\* lines 58-67: Token.create and the catch around it
signup_token(p) ==
  /\ pc[p] = "s_create"
  /\ \E e \in TokenCreateOutcomes(loc[p].shortToken) :
       /\ createLog' = [createLog EXCEPT ![p] = Attempt(@, e)]
       /\ IF e = JsStr("ok")
          THEN /\ tokens' = tokens \cup
                    {TokenRow(loc[p].newUser.user_id, loc[p].shortToken, "Verification",
                              signupClient(p))}
               /\ nextTokenId' = nextTokenId + 1
               /\ loc' = [loc EXCEPT ![p].emailVerificationToken = loc[p].shortToken]
               /\ pc' = [pc EXCEPT ![p] = "s_email"]
               /\ UNCHANGED failed
          ELSE /\ UNCHANGED <<tokens, nextTokenId, loc>>
               /\ IF signupIsCollision(e)
                  THEN /\ pc' = [pc EXCEPT ![p] = "s_token"]
                       /\ UNCHANGED failed
                  ELSE Throw(p, "Token.create")
  /\ UNCHANGED <<users, nextUserId, now, handler, req, resp, log, mails, escaped, pre>>

\* line 70: sendVerificationEmail
signup_email(p) ==
  /\ pc[p] = "s_email"
  /\ \E ok \in BOOLEAN :
       IF ok
       THEN /\ mails' = [mails EXCEPT ![p] =
                           Append(@, VerificationEmail(loc[p].newUser, loc[p].emailVerificationToken))]
            /\ pc' = [pc EXCEPT ![p] = "s_commit"]
            /\ UNCHANGED failed
       ELSE /\ Throw(p, "sendEmail")
            /\ UNCHANGED mails
  /\ UNCHANGED <<users, tokens, nextUserId, nextTokenId, now, handler, req, loc,
                 resp, log, createLog, escaped, pre>>

\* lines 72-76: COMMIT, then 204
signup_commit(p) ==
  /\ pc[p] = "s_commit"
  /\ \E ok \in BOOLEAN :
       IF ok
       THEN /\ users' = {IF u.tx = p THEN [u EXCEPT !.tx = 0] ELSE u : u \in users}
            /\ tokens' = {IF t.tx = p THEN [t EXCEPT !.tx = 0] ELSE t : t \in tokens}
            /\ loc' = [loc EXCEPT ![p].transactionInProgress = FALSE]
            /\ log' = [log EXCEPT ![p] = @ \o <<"COMMIT", "res">>]
            /\ resp' = [resp EXCEPT ![p] = Append(@, Response(204, "", NoCred))]
            /\ pc' = [pc EXCEPT ![p] = "s_finally"]
            /\ UNCHANGED failed
       ELSE /\ Throw(p, "COMMIT")
            /\ UNCHANGED <<users, tokens, loc, log, resp>>
  /\ UNCHANGED <<nextUserId, nextTokenId, now, handler, req, mails, createLog,
                 escaped, pre>>

\* lines 83-88: ROLLBACK if the transaction is open, then release.  A ROLLBACK
\* that throws leaves the handler at once; the server aborts the transaction
\* of the broken session.
signup_finally(p) ==
  /\ pc[p] = "s_finally"
  /\ IF signupNeedsRollback(loc[p])
     THEN /\ users' = {u \in users : u.tx # p}
          /\ tokens' = {t \in tokens : t.tx # p}
          /\ \E ok \in BOOLEAN :
               IF ok
               THEN /\ log' = [log EXCEPT ![p] = @ \o <<"ROLLBACK", "release">>]
                    /\ UNCHANGED <<failed, escaped>>
               ELSE /\ failed' = [failed EXCEPT ![p] = @ \cup {"ROLLBACK"}]
                    /\ escaped' = [escaped EXCEPT ![p] = TRUE]
                    /\ UNCHANGED log
     ELSE /\ log' = [log EXCEPT ![p] = Append(@, "release")]
          /\ UNCHANGED <<users, tokens, failed, escaped>>
  /\ pc' = [pc EXCEPT ![p] = "done"]
  /\ UNCHANGED <<nextUserId, nextTokenId, now, handler, req, loc, resp, mails,
                 createLog, pre>>

\* ------------------------------------------------------------ verify
\* line 165: the token type verify looks up
verifyTokenType == "Verification"

\* line 184
verifySetAttributes(l) == setAttributes("verified", TRUE, l.user.user_id)

verifyKeepsToken(l) == tokens

\* line 185
verifyDeleteToken(l) == deleteToken(l.token.token)

\* lines 163-172: Token.findTokens
verify(p) ==
  /\ \E value \in TokenVals, ok \in BOOLEAN :
       LET r == Request(Undefined, Undefined, Undefined, Undefined, value)
           found == findTokens(value, verifyTokenType)
       IN IF ~ok
          THEN Enter(p, "verify", r, InitLoc, "catch", <<>>, <<>>, {"findTokens"}, FALSE)
          ELSE IF found = {}
          THEN Enter(p, "verify", r, InitLoc, "done",
                     <<Response(302, "/login", NoCred)>>, <<"res">>, {}, FALSE)
          ELSE Enter(p, "verify", r, [InitLoc EXCEPT !.token = FirstRow(found)],
                     "v_user", <<>>, <<>>, {}, FALSE)
  /\ UNCHANGED <<users, tokens, nextUserId, nextTokenId, now>>

\* lines 175-181: User.findUsers
verify_user(p) ==
  /\ pc[p] = "v_user"
  /\ \E ok \in BOOLEAN :
       LET found == findUsers("user_id", loc[p].token.user_id)
       IN IF ~ok
          THEN /\ Throw(p, "findUsers")
               /\ UNCHANGED <<loc, resp, log>>
          ELSE IF found = {}
          THEN /\ resp' = [resp EXCEPT ![p] = Append(@, Response(500, "", NoCred))]
               /\ log' = [log EXCEPT ![p] = Append(@, "res")]
               /\ pc' = [pc EXCEPT ![p] = "done"]
               /\ UNCHANGED <<loc, failed>>
          ELSE /\ loc' = [loc EXCEPT ![p].user = FirstRow(found)]
               /\ pc' = [pc EXCEPT ![p] = "v_set"]
               /\ UNCHANGED <<resp, log, failed>>
  /\ UNCHANGED <<users, tokens, nextUserId, nextTokenId, now, handler, req, mails,
                 createLog, escaped, pre>>

\* line 184: User.setAttributes(["verified"], [true], user_id)
verify_set(p) ==
  /\ pc[p] = "v_set"
  /\ \E ok \in BOOLEAN :
       IF ok
       THEN /\ users' = verifySetAttributes(loc[p])
            /\ pc' = [pc EXCEPT ![p] = "v_del"]
            /\ UNCHANGED failed
       ELSE /\ Throw(p, "setAttributes")
            /\ UNCHANGED users
  /\ UNCHANGED <<tokens, nextUserId, nextTokenId, now, handler, req, loc, resp, log,
                 mails, createLog, escaped, pre>>

\* lines 185-187: Token.deleteToken, then the redirect
verify_del(p) ==
  /\ pc[p] = "v_del"
  /\ \E ok \in BOOLEAN :
       IF ok
       THEN /\ tokens' = verifyDeleteToken(loc[p])
            /\ resp' = [resp EXCEPT ![p] = Append(@, Response(302, "/login", NoCred))]
            /\ log' = [log EXCEPT ![p] = Append(@, "res")]
            /\ pc' = [pc EXCEPT ![p] = "done"]
            /\ UNCHANGED failed
       ELSE /\ Throw(p, "deleteToken")
            /\ UNCHANGED <<tokens, resp, log>>
  /\ UNCHANGED <<users, nextUserId, nextTokenId, now, handler, req, loc, mails,
                 createLog, escaped, pre>>

\* ------------------------------------------------------------ recovery
\* line 332
recoveryIsCollision(e) == StrictEq(e, JsNum(23505))

\* lines 340-350: the password reset email
PasswordResetEmail(user, token) ==
  [kind |-> "reset", to |-> user.email, token |-> token]

\* lines 202-216: body validation, User.findUsers by email
recovery(p) ==
  /\ nextTokenId <= MaxTokenId
  /\ \E email \in Emails \cup {Undefined}, ok \in BOOLEAN :
       LET r == Request(Undefined, email, Undefined, Undefined, Undefined)
           found == findUsers("email", email)
       IN IF email = Undefined
          THEN Enter(p, "recovery", r, InitLoc, "done",
                     <<Response(400, "", NoCred)>>, <<"res">>, {}, FALSE)
          ELSE IF ~ok
          THEN Enter(p, "recovery", r, InitLoc, "catch", <<>>, <<>>, {"findUsers"}, FALSE)
          ELSE IF found = {}
          THEN Enter(p, "recovery", r, InitLoc, "done",
                     <<Response(302, "/recover/sent", NoCred)>>, <<"res">>, {}, FALSE)
          ELSE Enter(p, "recovery", r, [InitLoc EXCEPT !.user = FirstRow(found)],
                     "r_token", <<>>, <<>>, {}, FALSE)
  /\ UNCHANGED <<users, tokens, nextUserId, nextTokenId, now>>

\* lines 325-326: the loop test and generateShortToken
recovery_generate(p) ==
  /\ pc[p] = "r_token"
  /\ loc[p].resetPasswordToken = Undefined
  /\ \E shortToken \in TokenVals :
       loc' = [loc EXCEPT ![p].shortToken = shortToken]
  /\ pc' = [pc EXCEPT ![p] = "r_create"]
  /\ UNCHANGED <<users, tokens, nextUserId, nextTokenId, now, handler, req, resp, log,
                 mails, createLog, failed, escaped, pre>>

\* lines 328-337: Token.create and the catch around it
recovery_token(p) ==
  /\ pc[p] = "r_create"
  /\ \E e \in TokenCreateOutcomes(loc[p].shortToken) :
       /\ createLog' = [createLog EXCEPT ![p] = Attempt(@, e)]
       /\ IF e = JsStr("ok")
          THEN /\ tokens' = tokens \cup
                    {TokenRow(loc[p].user.user_id, loc[p].shortToken, "Password", 0)}
               /\ nextTokenId' = nextTokenId + 1
               /\ loc' = [loc EXCEPT ![p].resetPasswordToken = loc[p].shortToken]
               /\ pc' = [pc EXCEPT ![p] = "r_email"]
               /\ UNCHANGED failed
          ELSE /\ UNCHANGED <<tokens, nextTokenId, loc>>
               /\ IF recoveryIsCollision(e)
                  THEN /\ pc' = [pc EXCEPT ![p] = "r_token"]
                       /\ UNCHANGED failed
                  ELSE Throw(p, "Token.create")
  /\ UNCHANGED <<users, nextUserId, now, handler, req, resp, log, mails, escaped, pre>>

\* lines 340-350 and 218: smtpService.sendEmail, then the redirect
recovery_email(p) ==
  /\ pc[p] = "r_email"
  /\ \E ok \in BOOLEAN :
       IF ok
       THEN /\ mails' = [mails EXCEPT ![p] =
                           Append(@, PasswordResetEmail(loc[p].user, loc[p].resetPasswordToken))]
            /\ resp' = [resp EXCEPT ![p] = Append(@, Response(302, "/recover/sent", NoCred))]
            /\ log' = [log EXCEPT ![p] = Append(@, "res")]
            /\ pc' = [pc EXCEPT ![p] = "done"]
            /\ UNCHANGED failed
       ELSE /\ Throw(p, "sendEmail")
            /\ UNCHANGED <<mails, resp, log>>
  /\ UNCHANGED <<users, tokens, nextUserId, nextTokenId, now, handler, req, loc,
                 createLog, escaped, pre>>

\* ------------------------------------------------------------ processRecovery
processRecoveryNeverRejects(token) == FALSE

\* lines 276-279: the expiration gate
processRecoveryRejects(token) == isPasswordTokenExpired(token)

\* lines 289-290
processRecoverySetPassword(p) ==
  setAttributes("password", Hash(req[p].password), loc[p].token.user_id)

processRecoveryDeletesTokensOfUser(p) ==
  {t \in tokens : t.user_id # loc[p].token.user_id}

\* line 291
processRecoveryDeleteToken(p) == deleteToken(req[p].token)

\* lines 261-279: body validation, Token.findTokens, expiration check
processRecovery(p) ==
  /\ \E password \in {"q", Undefined}, value \in TokenVals, ok \in BOOLEAN :
       LET r == Request(Undefined, Undefined, password, Undefined, value)
           found == findTokens(value, "Password")
           bad == <<Response(400, "", NoCred)>>
       IN IF password = Undefined
          THEN Enter(p, "processRecovery", r, InitLoc, "done", bad, <<"res">>, {}, FALSE)
          ELSE IF ~ok
          THEN Enter(p, "processRecovery", r, InitLoc, "catch", <<>>, <<>>,
                     {"findTokens"}, FALSE)
          ELSE IF found = {}
          THEN Enter(p, "processRecovery", r, InitLoc, "done", bad, <<"res">>, {}, FALSE)
          ELSE IF processRecoveryRejects(FirstRow(found))
          THEN Enter(p, "processRecovery", r,
                     [InitLoc EXCEPT !.token = FirstRow(found), !.checkedAt = now],
                     "done", bad, <<"res">>, {}, FALSE)
          ELSE Enter(p, "processRecovery", r,
                     [InitLoc EXCEPT !.token = FirstRow(found), !.checkedAt = now],
                     "p_user", <<>>, <<>>, {}, FALSE)
  /\ UNCHANGED <<users, tokens, nextUserId, nextTokenId, now>>

\* lines 281-287: User.findUsers
processRecovery_user(p) ==
  /\ pc[p] = "p_user"
  /\ \E ok \in BOOLEAN :
       LET found == findUsers("user_id", loc[p].token.user_id)
       IN IF ~ok
          THEN /\ Throw(p, "findUsers")
               /\ UNCHANGED <<loc, resp, log>>
          ELSE IF found = {}
          THEN /\ resp' = [resp EXCEPT ![p] = Append(@, Response(500, "", NoCred))]
               /\ log' = [log EXCEPT ![p] = Append(@, "res")]
               /\ pc' = [pc EXCEPT ![p] = "done"]
               /\ UNCHANGED <<loc, failed>>
          ELSE /\ loc' = [loc EXCEPT ![p].user = FirstRow(found)]
               /\ pc' = [pc EXCEPT ![p] = "p_set"]
               /\ UNCHANGED <<resp, log, failed>>
  /\ UNCHANGED <<users, tokens, nextUserId, nextTokenId, now, handler, req, mails,
                 createLog, escaped, pre>>

\* lines 289-290: bcrypt.hash, User.setAttributes(["password"], ...)
processRecovery_set(p) ==
  /\ pc[p] = "p_set"
  /\ \E ok \in BOOLEAN :
       IF ok
       THEN /\ users' = processRecoverySetPassword(p)
            /\ pc' = [pc EXCEPT ![p] = "p_del"]
            /\ UNCHANGED failed
       ELSE /\ Throw(p, "setAttributes")
            /\ UNCHANGED users
  /\ UNCHANGED <<tokens, nextUserId, nextTokenId, now, handler, req, loc, resp, log,
                 mails, createLog, escaped, pre>>

\* lines 291-299: Token.deleteToken, generateUserAuthToken, cookie and body
processRecovery_del(p) ==
  /\ pc[p] = "p_del"
  /\ \E deleted \in BOOLEAN, signed \in BOOLEAN :
       IF ~deleted
       THEN /\ Throw(p, "deleteToken")
            /\ UNCHANGED <<tokens, resp, log>>
       ELSE /\ tokens' = processRecoveryDeleteToken(p)
            /\ IF ~signed
               THEN /\ Throw(p, "generateUserAuthToken")
                    /\ UNCHANGED <<resp, log>>
               ELSE /\ resp' = [resp EXCEPT ![p] =
                                  Append(@, Response(200, "", generateUserAuthToken(loc[p].user)))]
                    /\ log' = [log EXCEPT ![p] = Append(@, "res")]
                    /\ pc' = [pc EXCEPT ![p] = "done"]
                    /\ UNCHANGED failed
  /\ UNCHANGED <<users, nextUserId, nextTokenId, now, handler, req, loc, mails,
                 createLog, escaped, pre>>

\* ------------------------------------------------------------ verifyRecovery
\* line 247: the target of the redirect, /recover/<token>
RecoverPath(token) ==
  CASE token = "t1" -> "/recover/t1"
    [] token = "t2" -> "/recover/t2"

verifyRecoveryNeverRejects(token) == FALSE

\* lines 242-245: the expiration gate
verifyRecoveryRejects(token) == isPasswordTokenExpired(token)

\* lines 231-255: Token.findTokens, expiration check, redirect; no write
verifyRecovery(p) ==
  /\ \E value \in TokenVals, ok \in BOOLEAN :
       LET r == Request(Undefined, Undefined, Undefined, Undefined, value)
           found == findTokens(value, "Password")
           bad == <<Response(400, "", NoCred)>>
       IN IF ~ok
          THEN Enter(p, "verifyRecovery", r, InitLoc, "catch", <<>>, <<>>,
                     {"findTokens"}, FALSE)
          ELSE IF found = {}
          THEN Enter(p, "verifyRecovery", r, InitLoc, "done", bad, <<"res">>, {}, FALSE)
          ELSE IF verifyRecoveryRejects(FirstRow(found))
          THEN Enter(p, "verifyRecovery", r,
                     [InitLoc EXCEPT !.token = FirstRow(found), !.checkedAt = now],
                     "done", bad, <<"res">>, {}, FALSE)
          ELSE Enter(p, "verifyRecovery", r,
                     [InitLoc EXCEPT !.token = FirstRow(found), !.checkedAt = now],
                     "done", <<Response(302, RecoverPath(value), NoCred)>>, <<"res">>,
                     {}, FALSE)
  /\ UNCHANGED <<users, tokens, nextUserId, nextTokenId, now>>

\* ------------------------------------------------------------ updateUser
\* the Role enum of @typings/auth
Role == [Standard |-> 1, Admin |-> 2]

\* user.ts line 37: the attributes a user may change on their own row
ProfileFields == {"username", "email", "name", "password"}

\* req.body of PATCH /api/user/:id: objects with the keys the client sent
UpdateBodies ==
  {[username |-> "cy"],
   [username |-> ""],
   [email |-> "c@x.com", name |-> "Cy", password |-> "q"],
   [roleId |-> Role.Admin],
   [roleId |-> Role.Standard],
   [username |-> "cy", roleId |-> Role.Admin],
   [nickname |-> "x"]}

\* req.userId and req.role (the claims of the caller's session credential),
\* req.params.id and req.body
UpdateRequest(userId, role, id, body) ==
  [userId |-> userId, role |-> role, id |-> id, body |-> body]

\* JavaScript truthiness of a string or undefined
Truthy(v) == v \notin {Undefined, ""}

\* obj[key] of a JavaScript object: undefined when the key is absent
Get(obj, key) == IF key \in DOMAIN obj THEN obj[key] ELSE Undefined

\* user.ts lines 33, 36-39, 46-48: newAttributes, with the password hashed
newAttributes(r) ==
  [k \in ProfileFields \cap DOMAIN r.body |->
     IF k = "password" THEN Hash(r.body[k]) ELSE r.body[k]]

\* user.ts lines 34, 41-43: newAdminAttributes
newAdminAttributes(r) ==
  [k \in {f \in {"role_id"} : "roleId" \in DOMAIN r.body} |-> r.body.roleId]

updateUserAnyCaller(r) == TRUE

\* user.ts line 32
isClientUser(r) == r.userId = r.id

\* user.ts lines 50-53: the gate of the profile write
updateUserWritesProfile(r) == isClientUser(r) /\ DOMAIN newAttributes(r) # {}

\* user.ts lines 58-61: the gate of the role write
updateUserWritesAdmin(r) == r.role = Role.Admin /\ DOMAIN newAdminAttributes(r) # {}

\* user.ts line 65: the gate of the refreshed credential
updateUserRefreshes(r) == Truthy(Get(newAttributes(r), "username"))

\* User.setAttributes(userId, attributes) as user.ts calls it: every named
\* attribute of the row is replaced
setAttributeBag(userId, attributes) ==
  {IF u.user_id = userId /\ u.tx = 0
     THEN [f \in DOMAIN u |-> IF f \in DOMAIN attributes THEN attributes[f] ELSE u[f]]
     ELSE u : u \in users}

\* the unique constraints on username and email reject the update
AttributeConflict(userId, attributes) ==
  \E u \in users, f \in {"username", "email"} \cap DOMAIN attributes :
    u.user_id # userId /\ u[f] = attributes[f]

\* tokenHandler.generateUpdatedUserAuthToken(req, newAttributes): the caller's
\* claims with the changed fields replaced
generateUpdatedUserAuthToken(r, attributes) ==
  [user_id |-> r.userId,
   username |-> Get(attributes, "username"),
   role_id |-> r.role]

\* user.ts lines 30-48: collect the attributes, bcrypt.hash
updateUser(p) ==
  /\ \E userId \in {u.user_id : u \in Committed(users)},
        role \in {Role.Standard, Role.Admin},
        id \in 1..MaxUserId, body \in UpdateBodies, ok \in BOOLEAN :
       LET r == UpdateRequest(userId, role, id, body)
       IN IF "password" \in DOMAIN body /\ ~ok
          THEN Enter(p, "updateUser", r, InitLoc, "catch", <<>>, <<>>,
                     {"bcrypt.hash"}, FALSE)
          ELSE Enter(p, "updateUser", r, InitLoc, "u_profile", <<>>, <<>>, {}, FALSE)
  /\ UNCHANGED <<users, tokens, nextUserId, nextTokenId, now>>

\* user.ts lines 50-55: the caller's own profile attributes
updateUser_profile(p) ==
  /\ pc[p] = "u_profile"
  /\ IF updateUserWritesProfile(req[p])
     THEN \E ok \in BOOLEAN :
            IF ok /\ ~AttributeConflict(req[p].id, newAttributes(req[p]))
            THEN /\ users' = setAttributeBag(req[p].id, newAttributes(req[p]))
                 /\ pc' = [pc EXCEPT ![p] = "u_admin"]
                 /\ UNCHANGED failed
            ELSE /\ Throw(p, "setAttributes")
                 /\ UNCHANGED users
     ELSE /\ pc' = [pc EXCEPT ![p] = "u_admin"]
          /\ UNCHANGED <<users, failed>>
  /\ UNCHANGED <<tokens, nextUserId, nextTokenId, now, handler, req, loc, resp, log,
                 mails, createLog, escaped, pre>>

\* user.ts lines 57-63: the role attribute
updateUser_admin(p) ==
  /\ pc[p] = "u_admin"
  /\ IF updateUserWritesAdmin(req[p])
     THEN \E ok \in BOOLEAN :
            IF ok
            THEN /\ users' = setAttributeBag(req[p].id, newAdminAttributes(req[p]))
                 /\ pc' = [pc EXCEPT ![p] = "u_token"]
                 /\ UNCHANGED failed
            ELSE /\ Throw(p, "setAttributes")
                 /\ UNCHANGED users
     ELSE /\ pc' = [pc EXCEPT ![p] = "u_token"]
          /\ UNCHANGED <<users, failed>>
  /\ UNCHANGED <<tokens, nextUserId, nextTokenId, now, handler, req, loc, resp, log,
                 mails, createLog, escaped, pre>>

\* user.ts lines 65-76: the refreshed credential, or 204
updateUser_token(p) ==
  /\ pc[p] = "u_token"
  /\ IF updateUserRefreshes(req[p])
     THEN \E ok \in BOOLEAN :
            IF ok
            THEN /\ resp' = [resp EXCEPT ![p] =
                      Append(@, Response(200, "",
                        generateUpdatedUserAuthToken(req[p], newAttributes(req[p]))))]
                 /\ log' = [log EXCEPT ![p] = Append(@, "res")]
                 /\ pc' = [pc EXCEPT ![p] = "done"]
                 /\ UNCHANGED failed
            ELSE /\ Throw(p, "generateUpdatedUserAuthToken")
                 /\ UNCHANGED <<resp, log>>
     ELSE /\ resp' = [resp EXCEPT ![p] = Append(@, Response(204, "", NoCred))]
          /\ log' = [log EXCEPT ![p] = Append(@, "res")]
          /\ pc' = [pc EXCEPT ![p] = "done"]
          /\ UNCHANGED failed
  /\ UNCHANGED <<users, tokens, nextUserId, nextTokenId, now, handler, req, loc,
                 mails, createLog, escaped, pre>>

\* ------------------------------------------------------------ deleteUser
\* user.ts lines 136-147
deleteUser(p) ==
  /\ \E id \in 1..MaxUserId, ok \in BOOLEAN :
       /\ id < nextUserId
       /\ IF ok
          THEN /\ Enter(p, "deleteUser", NoRequest, InitLoc, "done",
                        <<Response(204, "", NoCred)>>, <<"res">>, {}, FALSE)
               /\ users' = deleteUserRow(id)
          ELSE /\ Enter(p, "deleteUser", NoRequest, InitLoc, "catch", <<>>, <<>>,
                        {"deleteUser"}, FALSE)
               /\ UNCHANGED users
  /\ UNCHANGED <<tokens, nextUserId, nextTokenId, now>>

\* ------------------------------------------------------------ shared steps
\* the catch block of every handler: log the error, answer 500
catch(p) ==
  /\ pc[p] = "catch"
  /\ resp' = [resp EXCEPT ![p] = Append(@, Response(500, "", NoCred))]
  /\ log' = [log EXCEPT ![p] = Append(@, "res")]
  /\ pc' = [pc EXCEPT ![p] = IF handler[p] = "signup" THEN "s_finally" ELSE "done"]
  /\ UNCHANGED <<users, tokens, nextUserId, nextTokenId, now, handler, req, loc,
                 mails, createLog, failed, escaped, pre>>

\* The clock advances.  Every handler reads the clock in at most one step
\* (Token.create, or the expiration check), so a tick during a request is the
\* same as a tick before it.
Tick ==
  /\ now < MaxTime
  /\ \A p \in Procs : pc[p] \in {"idle", "done"}
  /\ now' = now + 1
  /\ UNCHANGED <<users, tokens, nextUserId, nextTokenId, pc, handler, req, loc,
                 resp, log, mails, createLog, failed, escaped, pre>>

\* One request at a time.
SeqProcs == {1}

Next ==
  \E p \in SeqProcs :
    \/ signup(p)
    \/ signup_begin(p)
    \/ signup_user(p)
    \/ signup_generate(p)
  \/ signup_token(p)
    \/ signup_email(p)
    \/ signup_commit(p)
    \/ signup_finally(p)
    \/ verify(p)
    \/ verify_user(p)
    \/ verify_set(p)
    \/ verify_del(p)
    \/ recovery(p)
    \/ recovery_generate(p)
  \/ recovery_token(p)
    \/ recovery_email(p)
    \/ processRecovery(p)
    \/ processRecovery_user(p)
    \/ processRecovery_set(p)
    \/ processRecovery_del(p)
    \/ deleteUser(p)
    \/ catch(p)
    \/ Tick

Spec == Init /\ [][Next]_vars

\* The continuation of a request in flight: the event loop resumes every
\* awaited call that has settled.
Step(p) ==
  \/ signup_begin(p)
  \/ signup_user(p)
  \/ signup_generate(p)
  \/ signup_token(p)
  \/ signup_email(p)
  \/ signup_commit(p)
  \/ signup_finally(p)
  \/ verify_user(p)
  \/ verify_set(p)
  \/ verify_del(p)
  \/ recovery_generate(p)
  \/ recovery_token(p)
  \/ recovery_email(p)
  \/ processRecovery_user(p)
  \/ processRecovery_set(p)
  \/ processRecovery_del(p)
  \/ catch(p)

FairSpec == Init /\ [][Next]_vars /\ \A p \in SeqProcs : WF_vars(Step(p))

\* Two requests in flight over a database that already holds a verified user
\* and a Password-Reset token issued to them.
InitConc ==
  /\ users = {[user_id |-> 1, username |-> "al", email |-> "a@x.com", name |-> "Al",
               password |-> Hash("p"), role_id |-> 1, verified |-> TRUE, tx |-> 0]}
  /\ tokens = {[token_id |-> 1, token |-> "t1", user_id |-> 1, type |-> "Password",
                created_at |-> 0, tx |-> 0]}
  /\ nextUserId = 2
  /\ nextTokenId = 2
  /\ now = 0
  /\ pc = [p \in Procs |-> "idle"]
  /\ handler = [p \in Procs |-> "none"]
  /\ req = [p \in Procs |-> NoRequest]
  /\ loc = [p \in Procs |-> InitLoc]
  /\ resp = [p \in Procs |-> <<>>]
  /\ log = [p \in Procs |-> <<>>]
  /\ mails = [p \in Procs |-> <<>>]
  /\ createLog = [p \in Procs |-> <<>>]
  /\ failed = [p \in Procs |-> {}]
  /\ escaped = [p \in Procs |-> FALSE]
  /\ pre = [p \in Procs |-> [users |-> {}, tokens |-> {}]]

NextConc ==
  \E p \in Procs :
    \/ processRecovery(p)
    \/ processRecovery_user(p)
    \/ processRecovery_set(p)
    \/ processRecovery_del(p)
    \/ catch(p)
    \/ Tick

SpecConc == InitConc /\ [][NextConc]_vars

\* One request at a time over a database that holds a verified user and two
\* Password-Reset tokens issued to them: the recovery link is opened
\* (verifyRecovery) and the new password submitted (processRecovery).
InitRecovery ==
  /\ users = {[user_id |-> 1, username |-> "al", email |-> "a@x.com", name |-> "Al",
               password |-> Hash("p"), role_id |-> 1, verified |-> TRUE, tx |-> 0]}
  /\ tokens = {[token_id |-> 1, token |-> "t1", user_id |-> 1, type |-> "Password",
                created_at |-> 0, tx |-> 0],
               [token_id |-> 2, token |-> "t2", user_id |-> 1, type |-> "Password",
                created_at |-> 0, tx |-> 0]}
  /\ nextUserId = 2
  /\ nextTokenId = 3
  /\ now = 0
  /\ pc = [p \in Procs |-> "idle"]
  /\ handler = [p \in Procs |-> "none"]
  /\ req = [p \in Procs |-> NoRequest]
  /\ loc = [p \in Procs |-> InitLoc]
  /\ resp = [p \in Procs |-> <<>>]
  /\ log = [p \in Procs |-> <<>>]
  /\ mails = [p \in Procs |-> <<>>]
  /\ createLog = [p \in Procs |-> <<>>]
  /\ failed = [p \in Procs |-> {}]
  /\ escaped = [p \in Procs |-> FALSE]
  /\ pre = [p \in Procs |-> [users |-> {}, tokens |-> {}]]

NextRecovery ==
  \E p \in SeqProcs :
    \/ verifyRecovery(p)
    \/ processRecovery(p)
    \/ processRecovery_user(p)
    \/ processRecovery_set(p)
    \/ processRecovery_del(p)
    \/ catch(p)
    \/ Tick

SpecRecovery == InitRecovery /\ [][NextRecovery]_vars

\* One request at a time over a database that holds a standard user and an
\* administrator: profile and role updates.
InitUser ==
  /\ users = {[user_id |-> 1, username |-> "al", email |-> "a@x.com", name |-> "Al",
               password |-> Hash("p"), role_id |-> Role.Standard, verified |-> TRUE,
               tx |-> 0],
              [user_id |-> 2, username |-> "bo", email |-> "b@x.com", name |-> "Bo",
               password |-> Hash("p"), role_id |-> Role.Admin, verified |-> TRUE,
               tx |-> 0]}
  /\ tokens = {}
  /\ nextUserId = 3
  /\ nextTokenId = 1
  /\ now = 0
  /\ pc = [p \in Procs |-> "idle"]
  /\ handler = [p \in Procs |-> "none"]
  /\ req = [p \in Procs |-> NoRequest]
  /\ loc = [p \in Procs |-> InitLoc]
  /\ resp = [p \in Procs |-> <<>>]
  /\ log = [p \in Procs |-> <<>>]
  /\ mails = [p \in Procs |-> <<>>]
  /\ createLog = [p \in Procs |-> <<>>]
  /\ failed = [p \in Procs |-> {}]
  /\ escaped = [p \in Procs |-> FALSE]
  /\ pre = [p \in Procs |-> [users |-> {}, tokens |-> {}]]

NextUser ==
  \E p \in SeqProcs :
    \/ updateUser(p)
    \/ updateUser_profile(p)
    \/ updateUser_admin(p)
    \/ updateUser_token(p)
    \/ catch(p)

SpecUser == InitUser /\ [][NextUser]_vars

\* ------------------------------------------------------------ properties
Range(s) == {s[i] : i \in 1..Len(s)}
Last(s) == s[Len(s)]
Done(p, h) == pc[p] = "done" /\ handler[p] = h
Redirect(to) == <<Response(302, to, NoCred)>>
Status(code) == <<Response(code, "", NoCred)>>
NewUsers(p) == Committed(users) \ pre[p].users
NewTokens(p) == Committed(tokens) \ pre[p].tokens
StoresUnchanged(p) ==
  Committed(users) = pre[p].users /\ Committed(tokens) = pre[p].tokens
\* rows of either table, committed or not, that belong to the user row p inserted
RowsOfNewUser(p) ==
  {u \in users : u.user_id = loc[p].newUser.user_id}
    \cup {t \in tokens : t.user_id = loc[p].newUser.user_id}
    \cup {r \in users \cup tokens : r.tx = p}

\* C1: a signup that inserted its user row and did not get COMMIT to succeed
\* (Token.create failed fatally, the email send failed, or COMMIT failed)
\* has, once the handler has finished, left no row of its own in the User
\* table or in the Token table.
C1_SignupAtomic ==
  \A p \in Procs :
    (Done(p, "signup") /\ loc[p].newUser # NoRow /\ "COMMIT" \notin Range(log[p]))
      => RowsOfNewUser(p) = {}

C1_Witness ==
  \E p \in Procs :
    /\ Done(p, "signup")
    /\ failed[p] = {"COMMIT"}
    /\ Len(mails[p]) = 1
    /\ "ROLLBACK" \in Range(log[p])

\* C2: a signup with a complete body in which no collaborator call fails
\* answers 204 and leaves exactly one new committed User row, with
\* verified = FALSE, exactly one new committed Verification token owned by
\* that user, and exactly one email, carrying that token's value.
C2_SignupSuccess ==
  \A p \in Procs :
    (Done(p, "signup") /\ failed[p] = {} /\ ~signupBodyInvalid(req[p]))
      => /\ resp[p] = Status(204)
         /\ \E u \in NewUsers(p) :
              /\ NewUsers(p) = {u}
              /\ u.verified = FALSE
              /\ u.username = req[p].username /\ u.email = req[p].email
              /\ \E t \in NewTokens(p) :
                   /\ NewTokens(p) = {t}
                   /\ t.type = "Verification"
                   /\ t.user_id = u.user_id
                   /\ mails[p] = <<[kind |-> "verify", to |-> u.email, token |-> t.token]>>

C2_Witness ==
  \E p \in Procs :
    /\ Done(p, "signup")
    /\ failed[p] = {}
    /\ resp[p] = Status(204)
    /\ Cardinality(NewUsers(p)) = 1

\* C3, first redemption: a verify call that found the Verification token and
\* its owner, and whose collaborator calls did not fail, has set the owner's
\* verified flag, deleted the token and redirected to /login.
C3_First ==
  \A p \in Procs :
    (Done(p, "verify") /\ loc[p].token # NoRow /\ loc[p].user # NoRow /\ failed[p] = {})
      => /\ resp[p] = Redirect("/login")
         /\ \A u \in Committed(users) : u.user_id = loc[p].user.user_id => u.verified
         /\ findTokens(req[p].token, "Verification") = {}
         /\ Committed(tokens) = pre[p].tokens \ {loc[p].token}

Redeemed(p) ==
  /\ Done(p, "verify") /\ loc[p].token # NoRow /\ loc[p].user # NoRow /\ failed[p] = {}

\* C3, later redemption: the verify call that follows a successful redemption
\* with the same token value takes the absent-token branch at once, redirects
\* to /login and changes neither table (unless the lookup itself throws).
C3_Replay ==
  \A p \in Procs :
    (Redeemed(p) /\ handler'[p] = "verify" /\ req'[p].token = req[p].token /\ pc'[p] # "done")
      => (pc'[p] = "catch" /\ failed'[p] = {"findTokens"} /\ users' = users /\ tokens' = tokens)

C3_ReplayDone ==
  \A p \in Procs :
    (Redeemed(p) /\ handler'[p] = "verify" /\ req'[p].token = req[p].token /\ pc'[p] = "done"
       /\ loc'[p] # loc[p])
      => (resp'[p] = Redirect("/login") /\ loc'[p].token = NoRow
            /\ users' = users /\ tokens' = tokens)

\* C3: the first verify call with a stored Verification token's value whose
\* owner exists verifies the owner, deletes the token and redirects to
\* /login; every later verify call with that value takes the absent-token
\* branch and changes nothing.
C3_VerifyOnce == []C3_First /\ [][C3_Replay /\ C3_ReplayDone]_vars

C3_Witness ==
  \E p \in Procs :
    /\ Redeemed(p)
    /\ \E u \in Committed(users) : u.user_id = loc[p].user.user_id /\ u.verified
    /\ loc[p].token \in pre[p].tokens

ProcessRecoverySucceeded(p) ==
  /\ Done(p, "processRecovery")
  /\ Len(resp[p]) = 1
  /\ resp[p][1].status = 200
  /\ resp[p][1].cred # NoCred

\* C4: a Password-Reset token is single-use: no two processRecovery requests
\* both update the password and return a session credential for the same
\* token row.
C4_SingleUse ==
  \A p \in Procs : \A q \in Procs \ {p} :
    ~ /\ ProcessRecoverySucceeded(p)
      /\ ProcessRecoverySucceeded(q)
      /\ loc[p].token.token_id = loc[q].token.token_id

Age(p) == loc[p].checkedAt - loc[p].token.created_at

\* C5: for a Password-Reset token present in the store, processRecovery
\* succeeds only if now - createdAt < TTL, and does succeed then when the
\* owner exists and no collaborator call fails; at an age equal to or above
\* TTL the request is answered 400 and neither table changes.
C5_Expiry ==
  \A p \in Procs :
    (Done(p, "processRecovery") /\ loc[p].token # NoRow)
      => /\ ProcessRecoverySucceeded(p) => Age(p) < TTL
         /\ Age(p) >= TTL => (resp[p] = Status(400) /\ StoresUnchanged(p))
         /\ (Age(p) < TTL /\ failed[p] = {}
               /\ \E u \in pre[p].users : u.user_id = loc[p].token.user_id)
              => /\ ProcessRecoverySucceeded(p)
                 /\ \A u \in Committed(users) :
                      u.user_id = loc[p].token.user_id => u.password = Hash(req[p].password)
                 /\ Committed(tokens) = pre[p].tokens \ {loc[p].token}

C5_Witness ==
  \E p \in Procs :
    /\ Done(p, "processRecovery")
    /\ loc[p].token # NoRow
    /\ Age(p) = TTL
    /\ resp[p] = Status(400)

\* C6: a recovery request for an email that belongs to a user is answered
\* like one for an email that belongs to no user (redirect to /recover/sent),
\* whatever the outcome of the token creation and of the email dispatch.
C6_SameResponse ==
  \A p \in Procs :
    (Done(p, "recovery") /\ req[p].email # Undefined /\ "findUsers" \notin failed[p])
      => resp[p] = Redirect("/recover/sent")

CollisionsThenOk(cl) ==
  /\ Len(cl) >= 2
  /\ Last(cl) = JsStr("ok")
  /\ \A i \in 1..(Len(cl) - 1) : cl[i] = PgUniqueViolation

\* C7: in signup, after N >= 1 uniqueness violations of Token.create the loop
\* is still running; when the next attempt succeeds the loop ends with exactly
\* one token row for the new user, and (email and COMMIT not failing) the
\* transaction commits and the response is 204.
C7_RetryThenSuccess ==
  \A p \in Procs :
    handler[p] = "signup" =>
      /\ (createLog[p] # <<>> /\ Last(createLog[p]) = PgUniqueViolation)
           => pc[p] \in {"s_token", "s_create"}
      /\ (CollisionsThenOk(createLog[p]) /\ pc[p] = "s_email")
           => \E t \in tokens :
                /\ {x \in tokens : x.user_id = loc[p].newUser.user_id} = {t}
                /\ t.token = loc[p].emailVerificationToken
      /\ (CollisionsThenOk(createLog[p]) /\ pc[p] = "done" /\ failed[p] = {})
           => /\ resp[p] = Status(204)
              /\ "COMMIT" \in Range(log[p])
              /\ \E t \in Committed(tokens) :
                   {x \in tokens : x.user_id = loc[p].newUser.user_id} = {t}

C7_Witness ==
  \E p \in Procs :
    /\ Done(p, "signup")
    /\ Len(createLog[p]) = MaxAttempts + 1
    /\ CollisionsThenOk(createLog[p])
    /\ resp[p] = Status(204)

\* C8: the token issuance loops are bounded, so every request that enters
\* one eventually finishes.
C8_Terminates ==
  \A p \in SeqProcs :
    (pc[p] \in {"s_token", "s_create", "r_token", "r_create"}) ~> (pc[p] = "done")

\* C9: in a recovery request a uniqueness violation of Token.create is
\* retried and never surfaced: the loop keeps running after it, and the
\* request (no other call failing) ends with a token persisted, an email sent
\* and the redirect to /recover/sent.
C9_CollisionRecovered ==
  \A p \in Procs :
    handler[p] = "recovery" =>
      /\ (createLog[p] # <<>> /\ Last(createLog[p]) = PgUniqueViolation)
           => pc[p] \in {"r_token", "r_create"}
      /\ (pc[p] = "done" /\ PgUniqueViolation \in Range(createLog[p])
            /\ PgOther \notin Range(createLog[p]) /\ "sendEmail" \notin failed[p])
           => /\ resp[p] = Redirect("/recover/sent")
              /\ Len(mails[p]) = 1
              /\ Cardinality(NewTokens(p)) = 1

FatalCreate(p) == PgOther \in Range(createLog[p])

\* C10: a Token.create failure that is not a uniqueness violation ends the
\* issuance loop (it is the last attempt), the request is answered 500, and
\* in signup the ROLLBACK is issued and no row of the request remains.
C10_FatalCreate ==
  \A p \in Procs :
    (handler[p] \in {"signup", "recovery"} /\ FatalCreate(p))
      => /\ Last(createLog[p]) = PgOther
         /\ \A i \in 1..(Len(createLog[p]) - 1) : createLog[p][i] # PgOther
         /\ pc[p] \in {"catch", "s_finally", "done"}
         /\ pc[p] # "catch" => resp[p] = Status(500)
         /\ (pc[p] = "done" /\ handler[p] = "signup")
              => /\ "ROLLBACK" \in Range(log[p]) \cup failed[p]
                 /\ RowsOfNewUser(p) = {}
         /\ (pc[p] = "done" /\ handler[p] = "recovery") => StoresUnchanged(p)

C10_Witness ==
  \E p \in Procs :
    /\ Done(p, "signup")
    /\ FatalCreate(p)
    /\ Len(createLog[p]) >= 2
    /\ "ROLLBACK" \in Range(log[p])

Count(sq, x) == Cardinality({i \in 1..Len(sq) : sq[i] = x})
Index(sq, x) == CHOOSE i \in 1..Len(sq) : sq[i] = x

\* C11: every signup invocation that acquired a pooled connection has
\* released it exactly once when the handler has finished, on every exit path
\* (400, committed success, a failure inside the transaction, a failure of
\* ROLLBACK itself).
C11_ReleasedOnce ==
  \A p \in Procs :
    (Done(p, "signup") /\ "connect" \in Range(log[p]))
      => Count(log[p], "release") = 1

\* C15: no handler lets an error escape: every finished invocation has sent
\* exactly one response and has propagated no exception to its caller,
\* whichever collaborator call failed (pool.connect and ROLLBACK included).
C15_NoEscape ==
  \A p \in Procs :
    pc[p] = "done" => (~escaped[p] /\ Len(resp[p]) = 1)

\* C16: in signup, when a step inside the transaction fails, the ROLLBACK is
\* executed before the 500 response is sent: whenever the 500 has been sent
\* for an open transaction, the rollback event is already in the log, before
\* the response event.
C16_RollbackBeforeResponse ==
  \A p \in Procs :
    (handler[p] = "signup" /\ resp[p] = Status(500) /\ "BEGIN" \in Range(log[p]))
      => /\ "ROLLBACK" \in Range(log[p])
         /\ Index(log[p], "ROLLBACK") < Index(log[p], "res")

\* C19: a processRecovery invocation answered 400 or 500 (a failure of
\* Token.deleteToken or of the credential generation included) has left the
\* owner's stored password and the Token store as they were before it.
C19_ErrorLeavesState ==
  \A p \in Procs :
    (Done(p, "processRecovery") /\ Len(resp[p]) = 1 /\ resp[p][1].status \in {400, 500})
      => StoresUnchanged(p)

\* C20: a verification email is never sent for an account that does not end
\* up existing: a finished signup that dispatched the email (and whose
\* ROLLBACK, if any, did not itself fail) has its user row and the
\* Verification token named in the email committed in the stores.
C20_EmailImpliesAccount ==
  \A p \in Procs :
    (Done(p, "signup") /\ Len(mails[p]) >= 1 /\ "ROLLBACK" \notin failed[p])
      => /\ \E u \in Committed(users) : u.user_id = loc[p].newUser.user_id
         /\ \E t \in Committed(tokens) :
              /\ t.token = mails[p][1].token
              /\ t.type = "Verification"
              /\ t.user_id = loc[p].newUser.user_id

\* C12, frame: a verifyRecovery call changes neither the Token store nor the
\* User store, whichever branch it takes (absent, expired, present and
\* unexpired), and it redirects to /recover/<token> only for a Password-Reset
\* token that is in the store and has not expired.
C12_Frame ==
  \A p \in Procs :
    handler[p] = "verifyRecovery"
      => /\ StoresUnchanged(p)
         /\ (pc[p] = "done" /\ resp[p] \notin {Status(400), Status(500)})
              => /\ resp[p] = Redirect(RecoverPath(req[p].token))
                 /\ loc[p].token \in Committed(tokens)
                 /\ loc[p].token.token = req[p].token
                 /\ loc[p].token.type = "Password"
                 /\ loc[p].checkedAt - loc[p].token.created_at < TTL

\* C12, afterwards: the processRecovery call that follows a redirecting
\* verifyRecovery with the same token value and a password, while the token
\* has not expired, passes the lookup and the expiration gate (unless the
\* lookup itself throws).
C12_StillRedeemable ==
  \A p \in Procs :
    ( /\ Done(p, "verifyRecovery")
      /\ resp[p] = Redirect(RecoverPath(req[p].token))
      /\ handler'[p] = "processRecovery"
      /\ req'[p].token = req[p].token
      /\ req'[p].password # Undefined
      /\ now - loc[p].token.created_at < TTL )
      => \/ pc'[p] = "p_user" /\ loc'[p].token = loc[p].token
         \/ pc'[p] = "catch" /\ failed'[p] = {"findTokens"}

\* C12: verifyRecovery is read-only, and a present, unexpired Password-Reset
\* token is still in the store and redeemable by processRecovery after it.
C12_ReadOnly == []C12_Frame /\ [][C12_StillRedeemable]_vars

C12_Witness ==
  \E p \in Procs :
    /\ Done(p, "verifyRecovery")
    /\ resp[p] = Redirect(RecoverPath(req[p].token))
    /\ loc[p].token \in Committed(tokens)
    /\ pre[p].tokens # {}
    /\ StoresUnchanged(p)

\* the other Password-Reset tokens of the token's owner, as stored before p's call
Siblings(p) ==
  {t \in pre[p].tokens : /\ t.type = "Password"
                         /\ t.user_id = loc[p].token.user_id
                         /\ t # loc[p].token}

\* C17, frame: at every point of a processRecovery invocation that found its
\* token, every other Password-Reset token of the same user that was in the
\* store before the call is still there, unchanged.
C17_SiblingsKept ==
  \A p \in Procs :
    (handler[p] = "processRecovery" /\ loc[p].token # NoRow)
      => Siblings(p) \subseteq Committed(tokens)

\* C17, afterwards: the processRecovery call that follows a successful
\* redemption and names an unexpired sibling token passes the lookup and the
\* expiration gate (unless the lookup itself throws), so the password can be
\* changed again.
C17_SiblingRedeemable ==
  \A p \in Procs :
    ( /\ ProcessRecoverySucceeded(p)
      /\ handler'[p] = "processRecovery"
      /\ req'[p].password # Undefined
      /\ \E t \in Siblings(p) : t.token = req'[p].token /\ now - t.created_at < TTL )
      => \/ pc'[p] = "p_user" /\ loc'[p].token \in Siblings(p)
         \/ pc'[p] = "catch" /\ failed'[p] = {"findTokens"}

\* C17: redeeming one Password-Reset token with processRecovery leaves the
\* sibling tokens of the same user in the store, and an unexpired sibling can
\* still be redeemed afterwards.
C17_SiblingsSurvive == []C17_SiblingsKept /\ [][C17_SiblingRedeemable]_vars

\* the second redemption has happened: the password had already been replaced
\* by an earlier redemption and this one consumed the last sibling
C17_Witness ==
  \E p \in Procs :
    /\ ProcessRecoverySucceeded(p)
    /\ \E u \in pre[p].users : u.user_id = loc[p].token.user_id /\ u.password = Hash("q")
    /\ pre[p].tokens = {loc[p].token}
    /\ tokens = {}

\* the row of user id as stored before p's call, and as stored now
RowBefore(p, id) == CHOOSE u \in pre[p].users : u.user_id = id
RowNow(id) == CHOOSE u \in Committed(users) : u.user_id = id
StoredBefore(p, id) == \E u \in pre[p].users : u.user_id = id
StoredNow(id) == \E u \in Committed(users) : u.user_id = id

\* C13: updateUser gates the two attribute sets independently: at every point
\* of an invocation, a user row whose profile fields (username, email, name,
\* password) differ from before the call is the target's and the caller's id
\* equals the target's; a row whose role differs is the target's and the
\* caller holds the Admin role; nothing else of the row changes, and a request
\* that satisfies neither gate leaves the User store unchanged.
C13_Gates ==
  \A p \in Procs :
    handler[p] = "updateUser"
      => /\ {u.user_id : u \in Committed(users)} = {u.user_id : u \in pre[p].users}
         /\ \A u \in Committed(users) :
              LET old == RowBefore(p, u.user_id)
              IN /\ (\E f \in ProfileFields : u[f] # old[f])
                      => (u.user_id = req[p].id /\ req[p].userId = u.user_id)
                 /\ u.role_id # old.role_id
                      => (u.user_id = req[p].id /\ req[p].role = Role.Admin)
                 /\ u.verified = old.verified
         /\ (req[p].userId # req[p].id /\ req[p].role # Role.Admin)
              => StoresUnchanged(p)

\* an administrator changed another user's role with a body that also names
\* a username: the role is written, the profile is not
C13_Witness ==
  \E p \in Procs :
    /\ Done(p, "updateUser")
    /\ req[p].userId # req[p].id
    /\ req[p].role = Role.Admin
    /\ Get(req[p].body, "username") = "cy"
    /\ StoredNow(req[p].id)
    /\ RowNow(req[p].id).role_id # RowBefore(p, req[p].id).role_id
    /\ RowNow(req[p].id).username = RowBefore(p, req[p].id).username

\* C14: whenever a finished updateUser request (none of whose collaborator
\* calls threw) changed the stored username of its target, the response
\* carries a refreshed credential that embeds the new username, not the empty
\* 204.
C14_UsernameRefreshes ==
  \A p \in Procs :
    ( /\ Done(p, "updateUser")
      /\ failed[p] = {}
      /\ StoredNow(req[p].id)
      /\ RowNow(req[p].id).username # RowBefore(p, req[p].id).username )
      => /\ Len(resp[p]) = 1
         /\ resp[p][1].status = 200
         /\ resp[p][1].cred # NoCred
         /\ resp[p][1].cred.username = RowNow(req[p].id).username

\* C18: whenever the response of updateUser carries a new credential, the
\* caller's id equals the target's and the stored username of that user is
\* the one the credential embeds.
C18_CredentialPersisted ==
  \A p \in Procs :
    (Done(p, "updateUser") /\ Len(resp[p]) = 1 /\ resp[p][1].cred # NoCred)
      => /\ req[p].userId = req[p].id
         /\ StoredNow(req[p].id)
         /\ RowNow(req[p].id).username = resp[p][1].cred.username
====
